---- MODULE Spec2Model ----
(***************************************************************************)
(* A model of pubcontrol.py: the PubControl dispatcher, its client list,  *)
(* its shared ZMQ socket guarded by _lock, the fan-in of asynchronous     *)
(* publish results and the subscription events of the socket monitors.    *)
(*                                                                         *)
(* Every method of PubControl is a little program run by a caller thread: *)
(* pc[t] is the thread's position in the method, loc[t] its local         *)
(* variables.  A critical section (acquire .. release) is one step, since *)
(* nothing else can run inside it; a section that raises never reaches    *)
(* its release and leaves lock = TRUE for ever.                           *)
(***************************************************************************)
EXTENDS Integers, Sequences, FiniteSets, TLC

\* ------------------------------------------------------------------ bounds
MaxClients == 2      \* longest client list
MaxObjs == 2         \* client objects constructed over the whole run
MaxSock == 2         \* shared sockets created over the whole run
MaxPublish == 1      \* publish calls over the whole run
MaxEntries == 2      \* longest configuration list
MaxSubCalls == 2     \* invocations of the consumer's sub_callback

AllThreads == {1, 2}
Chans == {"c"}
EmptyMsg == ""       \* the empty error message
NumUris == 2         \* distinct zmq_pub_uri values

VARIABLES
  clients,           \* self.clients: sequence of client object ids
  lock,              \* self._lock: TRUE while held
  sub_callback,      \* self._sub_callback: TRUE when the consumer gave one
  zmq_sock,          \* self._zmq_sock: 0 (None) or the id of a socket
  zmq_sub_monitor,   \* self._zmq_sub_monitor: 0 (None) or the id of a monitor
  depsAvail,         \* the zmq and tnetstring imports succeeded
  objs,              \* every client object constructed: kind, own monitor, closed
  socks,             \* every shared socket created: open, closes, connected uris
  monitors,          \* every ZmqSubMonitor created: socket, callback, subscriptions
  handlers,          \* every PubControlClientCallbackHandler created
  pending,           \* asynchronous client publishes started and not yet completed
  subCalls,          \* the calls made to the consumer's sub_callback, in order
  nPub,              \* publish calls made so far
  removedAll,        \* remove_all_clients returned and nothing was registered since
  pc,                \* per thread: position in the running method
  loc                \* per thread: the running method's locals and its call log

vars == <<clients, lock, sub_callback, zmq_sock, zmq_sub_monitor, depsAvail,
          objs, socks, monitors, handlers, pending, subCalls, nPub, removedAll,
          pc, loc>>

disp == <<clients, lock, zmq_sock, zmq_sub_monitor, objs, socks, monitors>>

\* ------------------------------------------------------------- thread locals
Loc0 ==
  [ op |-> "none",        \* the method being run
    blocking |-> FALSE, withCb |-> FALSE,
    pub |-> 0,            \* number of this publish call
    hid |-> 0,            \* cb: the handler made for this call, 0 for None
    itStarted |-> FALSE,  \* the for loop has taken its iterator
    itLive |-> TRUE,      \* the iterated list is still self.clients
    itFrozen |-> <<>>,    \* the iterated list, once self.clients was rebound
    idx |-> 0,            \* elements the iterator has yielded
    calls |-> <<>>,       \* clients whose publish / finish / close was invoked
    sent |-> 0,           \* send_multipart calls made by this call
    err |-> "none",       \* the exception that ended the call
    raisedAt |-> 0,       \* position of the client whose publish raised
    afterRemove |-> FALSE, \* the call began with removedAll
    cfg |-> <<>>,         \* apply_config: the configuration list
    client |-> 0,         \* apply_config: the local variable client
    built |-> 0,          \* apply_config: clients constructed by this call
    added |-> 0,          \* apply_config: clients appended by this call
    waitc |-> 0 ]         \* finish: the client whose finish() is running

ItList(t) == IF loc[t].itLive THEN clients ELSE loc[t].itFrozen

\* ---------------------------------------------------------- fan-in handler
\* PubControlClientCallbackHandler(num_calls, callback)
NewHandler(n) ==
  [ n |-> n, count |-> 0, success |-> TRUE, msg |-> EmptyMsg,
    fired |-> 0,                 \* calls made to the consumer's callback
    result |-> <<TRUE, EmptyMsg>>,  \* the arguments of the last such call
    firstFail |-> EmptyMsg,      \* message of the first failure to arrive
    fails |-> 0,                 \* failures reported
    returned |-> FALSE,          \* the publish call that made it has returned
    live |-> TRUE ]              \* still referenced by publish or by a client

\* handler(success, message)
HandlerReport(h, ok, m) ==
  LET first == ~ok /\ h.success
      s == IF first THEN FALSE ELSE h.success
      e == IF first THEN m ELSE h.msg
      fire == h.count + 1 = h.n
  IN [ h EXCEPT !.count = h.count + 1, !.success = s, !.msg = e,
                !.fired = IF fire THEN h.fired + 1 ELSE h.fired,
                !.result = IF fire THEN <<s, e>> ELSE h.result,
                !.firstFail = IF ~ok /\ h.fails = 0 THEN m ELSE h.firstFail,
                !.fails = IF ok THEN h.fails ELSE h.fails + 1 ]

\* the message a failing client reports for the publish at position pos
ErrMsg(pos) == IF pos = 1 THEN "e1" ELSE IF pos = 2 THEN "e2" ELSE "e3"

\* ------------------------------------------------------------------- Init
Init ==
  /\ clients = <<>>
  /\ lock = FALSE
  /\ sub_callback \in BOOLEAN
  /\ zmq_sock = 0
  /\ zmq_sub_monitor = 0
  /\ depsAvail \in BOOLEAN
  /\ objs = <<>>
  /\ socks = <<>>
  /\ monitors = <<>>
  /\ handlers = <<>>
  /\ pending = {}
  /\ subCalls = <<>>
  /\ nPub = 0
  /\ removedAll = FALSE
  /\ pc = [t \in AllThreads |-> "idle"]
  /\ loc = [t \in AllThreads |-> Loc0]

\* ------------------------------------------------------------- add_client
ExtKinds ==
  { [kind |-> "direct", mon |-> FALSE],
    [kind |-> "zmq", mon |-> FALSE],
    [kind |-> "zmq", mon |-> TRUE] }

NewObj(k) == [kind |-> k.kind, mon |-> k.mon, closed |-> FALSE, subs |-> {}]

\* add_client(client) with a client the consumer has just constructed
AddNewClient(t, k) ==
  /\ pc[t] = "idle"
  /\ Len(objs) < MaxObjs
  /\ Len(clients) < MaxClients
  /\ objs' = Append(objs, NewObj(k))
  /\ clients' = Append(clients, Len(objs) + 1)
  /\ removedAll' = FALSE
  /\ UNCHANGED <<lock, sub_callback, zmq_sock, zmq_sub_monitor, depsAvail,
                 socks, monitors, handlers, pending, subCalls, nPub, pc, loc>>

\* add_client(client) with a client that exists already (registered or not)
AddClient(t, c) ==
  /\ pc[t] = "idle"
  /\ c \in 1..Len(objs)
  /\ Len(clients) < MaxClients
  /\ clients' = Append(clients, c)
  /\ removedAll' = FALSE
  /\ UNCHANGED <<lock, sub_callback, zmq_sock, zmq_sub_monitor, depsAvail, objs,
                 socks, monitors, handlers, pending, subCalls, nPub, pc, loc>>

\* ---------------------------------------------------------------- publish
CallPublish(t, blocking, withCb) ==
  /\ pc[t] = "idle"
  /\ nPub < MaxPublish
  /\ nPub' = nPub + 1
  /\ pc' = [pc EXCEPT ![t] = "send"]
  /\ loc' = [loc EXCEPT ![t] = [Loc0 EXCEPT !.op = "publish",
                 !.blocking = blocking, !.withCb = withCb, !.pub = nPub + 1,
                 !.afterRemove = removedAll]]
  /\ UNCHANGED <<clients, lock, sub_callback, zmq_sock, zmq_sub_monitor,
                 depsAvail, objs, socks, monitors, handlers, pending, subCalls, removedAll>>

\* mutant: the test of self._zmq_sock is inverted, nothing is ever sent
SendToZmq_skip(t) ==
  /\ pc[t] = "send"
  /\ lock = FALSE
  /\ pc' = [pc EXCEPT ![t] = IF loc[t].blocking THEN "pub_loop" ELSE "size"]
  /\ UNCHANGED <<clients, lock, loc, sub_callback, zmq_sock, zmq_sub_monitor,
                 depsAvail, objs, socks, monitors, handlers, pending, subCalls,
                 nPub, removedAll>>

\* _send_to_zmq(channel, item): the whole critical section
SendToZmq(t) ==
  /\ pc[t] = "send"
  /\ lock = FALSE
  /\ IF zmq_sock = 0
     THEN /\ pc' = [pc EXCEPT ![t] = IF loc[t].blocking THEN "pub_loop" ELSE "size"]
          /\ UNCHANGED <<lock, loc>>
     ELSE \/ /\ pc' = [pc EXCEPT ![t] =
                         IF loc[t].blocking THEN "pub_loop" ELSE "size"]
             /\ loc' = [loc EXCEPT ![t].sent = @ + 1]
             /\ UNCHANGED lock
          \/ \* item.export or send_multipart raises: release is never reached
             /\ pc' = [pc EXCEPT ![t] = "raised"]
             /\ loc' = [loc EXCEPT ![t].err = "SendError"]
             /\ lock' = TRUE
  /\ UNCHANGED <<clients, sub_callback, zmq_sock, zmq_sub_monitor, depsAvail,
                 objs, socks, monitors, handlers, pending, subCalls, nPub, removedAll>>

\* mutant: the handler is sized for a single completion
HandlerSize_one(t) == 1

\* the size given to the callback handler
HandlerSize(t) == Len(clients)

\* cb = PubControlClientCallbackHandler(len(self.clients), callback).handler
PublishSize(t) ==
  /\ pc[t] = "size"
  /\ IF loc[t].withCb
     THEN /\ handlers' = Append(handlers, NewHandler(HandlerSize(t)))
          /\ loc' = [loc EXCEPT ![t].hid = Len(handlers) + 1]
     ELSE UNCHANGED <<handlers, loc>>
  /\ pc' = [pc EXCEPT ![t] = "pub_loop"]
  /\ UNCHANGED <<clients, lock, sub_callback, zmq_sock, zmq_sub_monitor,
                 depsAvail, objs, socks, monitors, pending, subCalls, nPub, removedAll>>

\* mutant: a raising client is skipped and the loop goes on; an asynchronous
\* loop stops once a failure has been reported
PublishNext_m(t) ==
  /\ pc[t] = "pub_loop"
  /\ LET halted == /\ ~loc[t].blocking /\ loc[t].hid # 0
                   /\ handlers[loc[t].hid].fails > 0
     IN IF loc[t].idx >= Len(ItList(t)) \/ halted
     THEN /\ pc' = [pc EXCEPT ![t] = "done"]
          /\ handlers' = IF loc[t].hid = 0 THEN handlers
                         ELSE [handlers EXCEPT ![loc[t].hid].returned = TRUE]
          /\ UNCHANGED <<loc, pending>>
     ELSE LET c == ItList(t)[loc[t].idx + 1]
              l == [loc[t] EXCEPT !.idx = @ + 1, !.itStarted = TRUE,
                                  !.calls = Append(@, c)]
          IN IF loc[t].blocking
             THEN \/ /\ loc' = [loc EXCEPT ![t] = l]
                     /\ UNCHANGED <<pc, handlers, pending>>
                  \/ /\ loc' = [loc EXCEPT ![t] = [l EXCEPT !.err = "TransportError",
                                                   !.raisedAt = loc[t].idx + 1]]
                     /\ UNCHANGED <<pc, handlers, pending>>
             ELSE /\ loc' = [loc EXCEPT ![t] = l]
                  /\ pending' = pending \cup
                       {[pub |-> loc[t].pub, pos |-> loc[t].idx + 1, c |-> c,
                         hid |-> loc[t].hid]}
                  /\ UNCHANGED <<pc, handlers>>
  /\ UNCHANGED <<clients, lock, sub_callback, zmq_sock, zmq_sub_monitor,
                 depsAvail, objs, socks, monitors, subCalls, nPub, removedAll>>

\* the for loop of publish, one client per step
PublishNext(t) ==
  /\ pc[t] = "pub_loop"
  /\ IF loc[t].idx >= Len(ItList(t))
     THEN /\ pc' = [pc EXCEPT ![t] = "done"]
          /\ handlers' = IF loc[t].hid = 0 THEN handlers
                         ELSE [handlers EXCEPT ![loc[t].hid].returned = TRUE]
          /\ UNCHANGED <<loc, pending>>
     ELSE LET c == ItList(t)[loc[t].idx + 1]
              l == [loc[t] EXCEPT !.idx = @ + 1, !.itStarted = TRUE,
                                  !.calls = Append(@, c)]
          IN IF loc[t].blocking
             THEN \/ /\ loc' = [loc EXCEPT ![t] = l]
                     /\ UNCHANGED <<pc, handlers, pending>>
                  \/ \* client.publish(blocking=True) raises
                     /\ loc' = [loc EXCEPT ![t] = [l EXCEPT !.err = "TransportError",
                                                   !.raisedAt = loc[t].idx + 1]]
                     /\ pc' = [pc EXCEPT ![t] = "raised"]
                     /\ UNCHANGED <<handlers, pending>>
             ELSE /\ loc' = [loc EXCEPT ![t] = l]
                  /\ pending' = pending \cup
                       {[pub |-> loc[t].pub, pos |-> loc[t].idx + 1, c |-> c,
                         hid |-> loc[t].hid]}
                  /\ UNCHANGED <<pc, handlers>>
  /\ UNCHANGED <<clients, lock, sub_callback, zmq_sock, zmq_sub_monitor,
                 depsAvail, objs, socks, monitors, subCalls, nPub, removedAll>>

\* a client's worker finishes one asynchronous publish and reports the result
ClientDone(p, ok) ==
  /\ p \in pending
  /\ pending' = pending \ {p}
  /\ handlers' = IF p.hid = 0 THEN handlers
                 ELSE [handlers EXCEPT ![p.hid] =
                         HandlerReport(@, ok, IF ok THEN EmptyMsg ELSE ErrMsg(p.pos))]
  /\ UNCHANGED <<clients, lock, sub_callback, zmq_sock, zmq_sub_monitor,
                 depsAvail, objs, socks, monitors, subCalls, nPub, pc, loc, removedAll>>

\* the method returns, normally or with its exception
Return(t) ==
  /\ pc[t] \in {"done", "raised"}
  /\ pc' = [pc EXCEPT ![t] = "idle"]
  /\ loc' = [loc EXCEPT ![t] = Loc0]
  /\ UNCHANGED <<clients, lock, sub_callback, zmq_sock, zmq_sub_monitor,
                 depsAvail, objs, socks, monitors, handlers, pending, subCalls, nPub, removedAll>>

\* ----------------------------------------------------- remove_all_clients
CallRemove(t) ==
  /\ pc[t] = "idle"
  /\ pc' = [pc EXCEPT ![t] = "rm_loop"]
  /\ loc' = [loc EXCEPT ![t] = [Loc0 EXCEPT !.op = "remove"]]
  /\ UNCHANGED <<clients, lock, sub_callback, zmq_sock, zmq_sub_monitor, depsAvail,
                 objs, socks, monitors, handlers, pending, subCalls, nPub, removedAll>>

\* for client in self.clients: close it unless it is a PubControlClient
RemoveNext(t) ==
  /\ pc[t] = "rm_loop"
  /\ IF loc[t].idx >= Len(ItList(t))
     THEN /\ pc' = [pc EXCEPT ![t] = "rm_clear"]
          /\ UNCHANGED <<loc, objs>>
     ELSE LET c == ItList(t)[loc[t].idx + 1]
          IN /\ pc' = pc
             /\ IF objs[c].kind # "direct"
                THEN /\ objs' = [objs EXCEPT ![c].closed = TRUE]
                     /\ loc' = [loc EXCEPT ![t].idx = @ + 1, ![t].itStarted = TRUE,
                                           ![t].calls = Append(@, c)]
                ELSE /\ objs' = objs
                     /\ loc' = [loc EXCEPT ![t].idx = @ + 1, ![t].itStarted = TRUE]
  /\ UNCHANGED <<clients, lock, sub_callback, zmq_sock, zmq_sub_monitor, depsAvail,
                 socks, monitors, handlers, pending, subCalls, nPub, removedAll>>

\* a loop of another thread that runs over self.clients keeps the old list
Rebound(t, u) ==
  IF u # t /\ loc[u].itStarted /\ loc[u].itLive
  THEN [loc[u] EXCEPT !.itLive = FALSE, !.itFrozen = clients]
  ELSE loc[u]

\* mutant: the client list is not replaced
RemoveClear_keep(t) ==
  /\ pc[t] = "rm_clear"
  /\ pc' = [pc EXCEPT ![t] = "rm_check"]
  /\ UNCHANGED <<clients, loc, lock, sub_callback, zmq_sock, zmq_sub_monitor,
                 depsAvail, objs, socks, monitors, handlers, pending, subCalls,
                 nPub, removedAll>>

\* self.clients = list()
RemoveClear(t) ==
  /\ pc[t] = "rm_clear"
  /\ clients' = <<>>
  /\ loc' = [u \in AllThreads |-> Rebound(t, u)]
  /\ pc' = [pc EXCEPT ![t] = "rm_check"]
  /\ UNCHANGED <<lock, sub_callback, zmq_sock, zmq_sub_monitor, depsAvail,
                 objs, socks, monitors, handlers, pending, subCalls, nPub, removedAll>>

\* if self._zmq_sock: (read without the lock)
RemoveCheck(t) ==
  /\ pc[t] = "rm_check"
  /\ pc' = [pc EXCEPT ![t] = IF zmq_sock # 0 THEN "rm_close" ELSE "done"]
  /\ removedAll' = (removedAll \/ pc'[t] = "done")
  /\ UNCHANGED <<clients, lock, sub_callback, zmq_sock, zmq_sub_monitor, depsAvail,
                 objs, socks, monitors, handlers, pending, subCalls, nPub, loc>>

\* mutant: the socket is closed and self._zmq_sock keeps naming it
RemoveClose_keepRef(t) ==
  /\ pc[t] = "rm_close"
  /\ lock = FALSE
  /\ zmq_sock # 0
  /\ socks' = [socks EXCEPT ![zmq_sock].open = FALSE, ![zmq_sock].closes = @ + 1]
  /\ pc' = [pc EXCEPT ![t] = "done"]
  /\ removedAll' = TRUE
  /\ UNCHANGED <<clients, lock, loc, zmq_sock, sub_callback, zmq_sub_monitor,
                 depsAvail, objs, monitors, handlers, pending, subCalls, nPub>>

\* acquire; self._zmq_sock.close(); self._zmq_sock = None; release
RemoveClose(t) ==
  /\ pc[t] = "rm_close"
  /\ lock = FALSE
  /\ IF zmq_sock = 0
     THEN \* None has no close: AttributeError, release is never reached
          /\ lock' = TRUE
          /\ pc' = [pc EXCEPT ![t] = "raised"]
          /\ loc' = [loc EXCEPT ![t].err = "AttributeError"]
          /\ UNCHANGED <<zmq_sock, socks>>
     ELSE /\ socks' = [socks EXCEPT ![zmq_sock].open = FALSE,
                                    ![zmq_sock].closes = @ + 1]
          /\ zmq_sock' = 0
          /\ pc' = [pc EXCEPT ![t] = "done"]
          /\ UNCHANGED <<lock, loc>>
  /\ removedAll' = (removedAll \/ pc'[t] = "done")
  /\ UNCHANGED <<clients, sub_callback, zmq_sub_monitor, depsAvail,
                 objs, monitors, handlers, pending, subCalls, nPub>>

\* ----------------------------------------------------------------- finish
CallFinish(t) ==
  /\ pc[t] = "idle"
  /\ pc' = [pc EXCEPT ![t] = "fin_loop"]
  /\ loc' = [loc EXCEPT ![t] = [Loc0 EXCEPT !.op = "finish"]]
  /\ UNCHANGED <<clients, lock, sub_callback, zmq_sock, zmq_sub_monitor, depsAvail,
                 objs, socks, monitors, handlers, pending, subCalls, nPub, removedAll>>

\* mutant: finish is called on every client
FinishApplies_all(c) == TRUE

\* if not isinstance(client, ZmqPubControlClient)
FinishApplies(c) == objs[c].kind # "zmq"

\* for client in self.clients: client.finish() unless it is a ZmqPubControlClient
FinishNext(t) ==
  /\ pc[t] = "fin_loop"
  /\ IF loc[t].idx >= Len(ItList(t))
     THEN /\ pc' = [pc EXCEPT ![t] = "done"]
          /\ UNCHANGED loc
     ELSE LET c == ItList(t)[loc[t].idx + 1]
          IN IF FinishApplies(c)
             THEN /\ pc' = [pc EXCEPT ![t] = "fin_wait"]
                  /\ loc' = [loc EXCEPT ![t].idx = @ + 1, ![t].itStarted = TRUE,
                                        ![t].calls = Append(@, c), ![t].waitc = c]
             ELSE /\ pc' = pc
                  /\ loc' = [loc EXCEPT ![t].idx = @ + 1, ![t].itStarted = TRUE]
  /\ UNCHANGED <<clients, lock, sub_callback, zmq_sock, zmq_sub_monitor, depsAvail,
                 objs, socks, monitors, handlers, pending, subCalls, nPub, removedAll>>

\* client.finish() returns once the client's asynchronous work is drained
FinishWait(t) ==
  /\ pc[t] = "fin_wait"
  /\ \A p \in pending : p.c # loc[t].waitc
  /\ pc' = [pc EXCEPT ![t] = "fin_loop"]
  /\ loc' = [loc EXCEPT ![t].waitc = 0]
  /\ UNCHANGED <<clients, lock, sub_callback, zmq_sock, zmq_sub_monitor, depsAvail,
                 objs, socks, monitors, handlers, pending, subCalls, nPub, removedAll>>

\* the handler is dropped once nothing refers to it any more
HandlerDiscard(h) ==
  /\ h \in 1..Len(handlers)
  /\ handlers[h].live
  /\ handlers[h].returned
  /\ \A p \in pending : p.hid # h
  /\ handlers' = [handlers EXCEPT ![h] = [NewHandler(0) EXCEPT !.live = FALSE]]
  /\ UNCHANGED <<clients, lock, sub_callback, zmq_sock, zmq_sub_monitor, depsAvail,
                 objs, socks, monitors, pending, subCalls, nPub, pc, loc, removedAll>>

\* ----------------------------------------------------------- apply_config
\* a configuration entry: which keys it has; pub is 0 or the zmq_pub_uri;
\* req is the value of zmq_require_subscribers ("none" when the key is missing)
Entry(uri, zuri, push, pub, req) ==
  [uri |-> uri, zmq_uri |-> zuri, push |-> push, pub |-> pub, req |-> req]

AllEntries ==
  { Entry(u, z, p, b, r) : u \in BOOLEAN, z \in BOOLEAN, p \in BOOLEAN,
                           b \in 0..NumUris, r \in {"none", "true", "false"} }

Configs(S, n) == UNION { [1..k -> S] : k \in 1..n }

\* entry.get('zmq_require_subscribers') is False and 'zmq_pub_uri' not in entry
Invalid(e) == e.req = "false" /\ e.pub = 0

\* mutant: only the first entry is validated
Validate_first(cfg) == ~Invalid(cfg[1])

\* the first loop of apply_config
Validate(cfg) == \A i \in 1..Len(cfg) : ~Invalid(cfg[i])

\* 'zmq_uri' in entry or 'zmq_push_uri' in entry or 'zmq_pub_uri' in entry
IsBus(e) == e.zmq_uri \/ e.push \/ e.pub # 0

\* require_subscribers, None replaced by False
RequireSubscribers(e) == e.req = "true"

\* mutant: zmq_push_uri is not looked at
ShouldConnect_nopush(e) == e.pub # 0

\* 'zmq_pub_uri' in entry and (require_subscribers or 'zmq_push_uri' not in entry)
ShouldConnect(e) == e.pub # 0 /\ (RequireSubscribers(e) \/ ~e.push)

\* the clients one entry constructs
Built(e) == (IF e.uri THEN 1 ELSE 0) + (IF IsBus(e) THEN 1 ELSE 0)

CallApplyConfig(t, cfg) ==
  /\ pc[t] = "idle"
  /\ Len(clients) + Len(cfg) <= MaxClients
  /\ Len(objs) + Len(cfg) <= MaxObjs
  /\ Len(socks) < MaxSock
  /\ IF Validate(cfg)
     THEN /\ pc' = [pc EXCEPT ![t] = "cfg_entry"]
          /\ loc' = [loc EXCEPT ![t] = [Loc0 EXCEPT !.op = "apply", !.cfg = cfg]]
     ELSE /\ pc' = [pc EXCEPT ![t] = "raised"]
          /\ loc' = [loc EXCEPT ![t] = [Loc0 EXCEPT !.op = "apply", !.cfg = cfg,
                                                    !.err = "ConfigError"]]
  /\ removedAll' = FALSE
  /\ UNCHANGED <<clients, lock, sub_callback, zmq_sock, zmq_sub_monitor, depsAvail,
                 objs, socks, monitors, handlers, pending, subCalls, nPub>>

\* the second loop, from client = None to the construction of the clients
ApplyEntry(t) ==
  /\ pc[t] = "cfg_entry"
  /\ LET e == loc[t].cfg[loc[t].idx + 1]
         kind == IF IsBus(e) THEN "zmq" ELSE "direct"
     IN IF IsBus(e) /\ ~depsAvail
        THEN \* zmq or tnetstring is missing
             /\ pc' = [pc EXCEPT ![t] = "raised"]
             /\ loc' = [loc EXCEPT ![t].err = "DependencyError",
                                   ![t].built = @ + (IF e.uri THEN 1 ELSE 0)]
             /\ objs' = objs
        ELSE IF Built(e) = 0
        THEN /\ pc' = [pc EXCEPT ![t] = "cfg_append"]
             /\ loc' = [loc EXCEPT ![t].client = 0]
             /\ objs' = objs
        ELSE \* client names the client constructed last
             /\ objs' = Append(objs, NewObj([kind |-> kind, mon |-> FALSE]))
             /\ loc' = [loc EXCEPT ![t].client = Len(objs) + 1,
                                   ![t].built = @ + Built(e)]
             /\ pc' = [pc EXCEPT ![t] =
                         IF IsBus(e) /\ ShouldConnect(e) THEN "cfg_connect"
                         ELSE "cfg_append"]
  /\ UNCHANGED <<clients, lock, sub_callback, zmq_sock, zmq_sub_monitor, depsAvail,
                 socks, monitors, handlers, pending, subCalls, nPub, removedAll>>

NewSock == [open |-> TRUE, closes |-> 0, uris |-> {}]

\* ZmqSubMonitor(self._zmq_sock, self._lock, self._sub_callback)
NewMonitor(sock) == [sock |-> sock, cb |-> "sub_callback", subs |-> {}]

\* mutant: the socket is created on every call, held or not
ConnectZmqPubUri_always(t) ==
  /\ pc[t] = "cfg_connect"
  /\ lock = FALSE
  /\ Len(socks) < MaxSock
  /\ socks' = Append(socks, [NewSock EXCEPT
                              !.uris = {loc[t].cfg[loc[t].idx + 1].pub}])
  /\ zmq_sock' = Len(socks) + 1
  /\ IF sub_callback
     THEN /\ monitors' = Append(monitors, NewMonitor(Len(socks) + 1))
          /\ zmq_sub_monitor' = Len(monitors) + 1
     ELSE UNCHANGED <<monitors, zmq_sub_monitor>>
  /\ pc' = [pc EXCEPT ![t] = "cfg_append"]
  /\ UNCHANGED <<clients, lock, loc, sub_callback, depsAvail, objs, handlers,
                 pending, subCalls, nPub, removedAll>>

\* _connect_zmq_pub_uri(uri): the whole critical section
ConnectZmqPubUri(t) ==
  /\ pc[t] = "cfg_connect"
  /\ lock = FALSE
  /\ LET uri == loc[t].cfg[loc[t].idx + 1].pub
         create == zmq_sock = 0
         sock == IF create THEN Len(socks) + 1 ELSE zmq_sock
         socks1 == IF create THEN Append(socks, NewSock) ELSE socks
     IN /\ zmq_sock' = sock
        /\ IF create /\ sub_callback
           THEN /\ monitors' = Append(monitors, NewMonitor(sock))
                /\ zmq_sub_monitor' = Len(monitors) + 1
           ELSE UNCHANGED <<monitors, zmq_sub_monitor>>
        /\ \/ /\ socks' = [socks1 EXCEPT ![sock].uris = @ \cup {uri}]
              /\ pc' = [pc EXCEPT ![t] = "cfg_append"]
              /\ UNCHANGED <<lock, loc>>
           \/ \* connect raises: release is never reached
              /\ socks' = socks1
              /\ lock' = TRUE
              /\ pc' = [pc EXCEPT ![t] = "raised"]
              /\ loc' = [loc EXCEPT ![t].err = "ConnectError"]
  /\ UNCHANGED <<clients, sub_callback, depsAvail, objs, handlers, pending,
                 subCalls, nPub, removedAll>>

\* if client: self.clients.append(client), and on to the next entry
ApplyAppend(t) ==
  /\ pc[t] = "cfg_append"
  /\ LET c == loc[t].client
         last == loc[t].idx + 1 >= Len(loc[t].cfg)
     IN /\ clients' = IF c # 0 THEN Append(clients, c) ELSE clients
        /\ loc' = [loc EXCEPT ![t].idx = @ + 1, ![t].client = 0,
                              ![t].added = @ + (IF c # 0 THEN 1 ELSE 0)]
        /\ pc' = [pc EXCEPT ![t] = IF last THEN "done" ELSE "cfg_entry"]
  /\ UNCHANGED <<lock, sub_callback, zmq_sock, zmq_sub_monitor, depsAvail,
                 objs, socks, monitors, handlers, pending, subCalls, nPub, removedAll>>

\* ------------------------------------------------------ subscription events
\* a ZmqSubMonitor sees a subscribe or unsubscribe on its socket: it calls its
\* callback before adding the channel, or after removing it
MonitorEvent(m, type, ch) ==
  /\ m \in 1..Len(monitors)
  /\ socks[monitors[m].sock].open
  /\ lock = FALSE
  /\ Len(subCalls) < MaxSubCalls
  /\ IF type = "sub" THEN ch \notin monitors[m].subs ELSE ch \in monitors[m].subs
  /\ monitors' = [monitors EXCEPT ![m].subs =
                    IF type = "sub" THEN @ \cup {ch} ELSE @ \ {ch}]
  /\ subCalls' = Append(subCalls, <<type, ch>>)
  /\ UNCHANGED <<clients, lock, sub_callback, zmq_sock, zmq_sub_monitor, depsAvail,
                 objs, socks, handlers, pending, nPub, pc, loc, removedAll>>

\* the monitor a registered client owns sees a subscribe or unsubscribe
ClientMonitorEvent(c, type, ch) ==
  /\ c \in 1..Len(objs)
  /\ \E i \in 1..Len(clients) : clients[i] = c
  /\ objs[c].mon /\ ~objs[c].closed
  /\ IF type = "sub" THEN ch \notin objs[c].subs ELSE ch \in objs[c].subs
  /\ objs' = [objs EXCEPT ![c].subs = IF type = "sub" THEN @ \cup {ch} ELSE @ \ {ch}]
  /\ UNCHANGED <<clients, lock, sub_callback, zmq_sock, zmq_sub_monitor, depsAvail,
                 socks, monitors, handlers, pending, subCalls, nPub, pc, loc, removedAll>>

\* ------------------------------------------------------------------- Next
\* the configurations the callers apply
MainEntries ==
  { Entry(TRUE, FALSE, FALSE, 0, "none"),     \* {'uri'}
    Entry(FALSE, FALSE, FALSE, 1, "none"),    \* {'zmq_pub_uri'}
    Entry(TRUE, TRUE, FALSE, 0, "none"),      \* {'uri', 'zmq_uri'}
    Entry(FALSE, TRUE, FALSE, 0, "false") }   \* {'zmq_uri', 'zmq_require_subscribers': False}

Step(t) ==
  \/ \E k \in ExtKinds : AddNewClient(t, k)
  \/ \E c \in 1..MaxObjs : AddClient(t, c)
  \/ \E b \in BOOLEAN, w \in BOOLEAN : (b => ~w) /\ CallPublish(t, b, w)
  \/ SendToZmq(t)
  \/ PublishSize(t)
  \/ PublishNext(t)
  \/ CallRemove(t)
  \/ RemoveNext(t)
  \/ RemoveClear(t)
  \/ RemoveCheck(t)
  \/ RemoveClose(t)
  \/ CallFinish(t)
  \/ FinishNext(t)
  \/ FinishWait(t)
  \/ \E cfg \in Configs(MainEntries, MaxEntries) : CallApplyConfig(t, cfg)
  \/ ApplyEntry(t)
  \/ ConnectZmqPubUri(t)
  \/ ApplyAppend(t)
  \/ Return(t)

Env ==
  \/ \E p \in pending, ok \in BOOLEAN : ClientDone(p, ok)
  \/ \E h \in 1..MaxPublish : HandlerDiscard(h)
  \/ \E m \in 1..MaxSock, type \in {"sub", "unsub"}, ch \in Chans :
       MonitorEvent(m, type, ch)
  \/ \E c \in 1..MaxObjs, type \in {"sub", "unsub"}, ch \in Chans :
       ClientMonitorEvent(c, type, ch)

Next == Step(1) \/ Env

Spec == Init /\ [][Next]_vars

\* --------------------------------------------------------------- claims
PendingOf(h) == { p \in pending : p.hid = h }
LiveHandlers == { h \in 1..Len(handlers) : handlers[h].live }
Publishing(t) == loc[t].op = "publish"
IsDirect(c) == objs[c].kind = "direct"

RECURSIVE DirectOnly(_)
DirectOnly(q) ==
  IF q = <<>> THEN <<>>
  ELSE IF IsDirect(Head(q)) THEN <<Head(q)>> \o DirectOnly(Tail(q))
  ELSE DirectOnly(Tail(q))

\* C1: a non-blocking publish with a callback, over N >= 0 registered clients,
\* invokes the callback exactly once, and only after all N completions were
\* reported: once publish has returned and every completion has arrived the
\* callback has run once, it never runs twice, and it never runs while a
\* completion is outstanding.
C1_CallbackExactlyOnce ==
  \A h \in LiveHandlers :
    /\ handlers[h].fired <= 1
    /\ handlers[h].fired = 1 => handlers[h].count = handlers[h].n
    /\ (handlers[h].returned /\ PendingOf(h) = {}) => handlers[h].fired = 1

\* C2: the result given to the callback is (true, empty message) when no client
\* reported a failure, and otherwise (false, m), m being the message of the
\* failure that arrived first, whatever the position of the failing client.
C2_AggregatedResult ==
  \A h \in LiveHandlers :
    (handlers[h].fired >= 1 /\ handlers[h].returned /\ PendingOf(h) = {}) =>
      handlers[h].result =
        IF handlers[h].fails = 0 THEN <<TRUE, EmptyMsg>>
        ELSE <<FALSE, handlers[h].firstFail>>

\* both clients failed, and the failure of the second one arrived first
C2_Witness ==
  \E h \in LiveHandlers :
    /\ handlers[h].fired = 1 /\ handlers[h].returned /\ PendingOf(h) = {}
    /\ handlers[h].fails = 2
    /\ handlers[h].result = <<FALSE, ErrMsg(2)>>

\* C4: a blocking publish invokes the clients one at a time in registration
\* order; when the i-th client raises the error reaches the caller and no
\* client after position i is invoked.
C4_BlockingStopsAtFirstRaise ==
  \A t \in AllThreads :
    (Publishing(t) /\ loc[t].blocking) =>
      /\ loc[t].calls = SubSeq(clients, 1, Len(loc[t].calls))
      /\ pc[t] = "done" => loc[t].calls = clients
      /\ loc[t].raisedAt # 0 =>
           /\ pc[t] = "raised" /\ loc[t].err = "TransportError"
           /\ Len(loc[t].calls) = loc[t].raisedAt

\* the first of two clients raised: the second was never invoked
C4_Witness ==
  \E t \in AllThreads :
    /\ Publishing(t) /\ loc[t].blocking /\ pc[t] = "raised"
    /\ loc[t].raisedAt = 1 /\ Len(clients) = 2 /\ Len(loc[t].calls) = 1

\* C5: a non-blocking publish starts the asynchronous publish of every
\* registered client exactly once, in registration order, whether or not other
\* clients fail, and no failure of a client is raised to the caller: the call
\* returns normally with every client started, and the only error it can
\* raise comes from the shared socket, before any client is started.
C5_AsyncStartsEveryClient ==
  \A t \in AllThreads :
    (Publishing(t) /\ ~loc[t].blocking) =>
      /\ loc[t].calls = SubSeq(clients, 1, Len(loc[t].calls))
      /\ pc[t] = "done" => loc[t].calls = clients
      /\ pc[t] = "raised" => (loc[t].err = "SendError" /\ loc[t].calls = <<>>)

\* the first client has failed already and the second was started all the same
C5_Witness ==
  \E t \in AllThreads :
    /\ Publishing(t) /\ ~loc[t].blocking /\ pc[t] = "done"
    /\ Len(loc[t].calls) = 2
    /\ loc[t].hid # 0 /\ handlers[loc[t].hid].fails = 1
    /\ \E p \in pending : p.pub = loc[t].pub /\ p.pos = 2

\* an entry with zmq_require_subscribers false and no zmq_pub_uri
HasInvalidEntry(cfg) ==
  \E i \in 1..Len(cfg) : cfg[i].req = "false" /\ cfg[i].pub = 0

C7_SocketCreatedOnce ==
  /\ Len(socks) <= 1
  /\ \A s \in 1..Len(socks) : socks[s].closes <= 1

\* C7 as amended: at most one shared socket is open at a time, it is the one
\* self._zmq_sock names, and no socket is closed twice.
C7_OneOpenSocket ==
  /\ \A s \in 1..Len(socks) :
       /\ socks[s].closes <= 1
       /\ socks[s].open <=> socks[s].closes = 0
       /\ socks[s].open => zmq_sock = s
  /\ zmq_sock # 0 => (zmq_sock \in 1..Len(socks) /\ socks[zmq_sock].open)

\* a second socket is open after the first one was closed
C7_Witness ==
  /\ Len(socks) = 2 /\ socks[1].closes = 1 /\ socks[2].open /\ zmq_sock = 2

\* C8: a publish made after remove_all_clients invokes no client, sends
\* nothing on the shared socket and does not raise, whether or not a shared
\* socket was created before.
C8_PublishAfterRemoveIsNoOp ==
  \A t \in AllThreads :
    (Publishing(t) /\ loc[t].afterRemove) =>
      /\ loc[t].calls = <<>>
      /\ loc[t].sent = 0
      /\ pc[t] # "raised"

\* such a publish has returned; a socket had been created and clients registered
C8_Witness ==
  \E t \in AllThreads :
    /\ Publishing(t) /\ loc[t].afterRemove /\ pc[t] = "done"
    /\ Len(socks) >= 1 /\ Len(objs) >= 1

\* C9: finish invokes finish on every registered direct-publish client and on
\* no bus-publish client, and returns once every direct-publish client is
\* drained; it never waits on a bus-publish client.
C9_FinishDrainsDirectClients ==
  \A t \in AllThreads :
    loc[t].op = "finish" =>
      /\ loc[t].calls = DirectOnly(SubSeq(clients, 1, loc[t].idx))
      /\ pc[t] = "fin_wait" => IsDirect(loc[t].waitc)
      /\ pc[t] = "done" =>
           /\ loc[t].calls = DirectOnly(clients)
           /\ \A p \in pending :
                (\E i \in 1..Len(clients) : clients[i] = p.c) => ~IsDirect(p.c)

\* finish returned after its one direct client, a bus client still has work
C9_Witness ==
  \E t \in AllThreads :
    /\ loc[t].op = "finish" /\ pc[t] = "done"
    /\ Len(loc[t].calls) = 1 /\ Len(clients) = 2
    /\ \E p \in pending : \E i \in 1..Len(clients) : clients[i] = p.c

\* C10: apply_config appends every client it constructs: when it returns, the
\* number of clients appended equals the number constructed.
C10_AppendsEveryConstructed ==
  \A t \in AllThreads :
    (loc[t].op = "apply" /\ pc[t] = "done") => loc[t].added = loc[t].built

\* the channels some monitor holds: the dispatcher's own, or a registered client's
Subscribed(ch) ==
  \/ zmq_sub_monitor # 0 /\ ch \in monitors[zmq_sub_monitor].subs
  \/ \E i \in 1..Len(clients) : objs[clients[i]].mon /\ ch \in objs[clients[i]].subs

\* C3: the consumer's callback, when one was given, is called with ('sub', c)
\* exactly when the OR of all monitors' subscribed state of c goes from false
\* to true, and with ('unsub', c) exactly when it goes from true to false.
C3_CallbackOnAggregateEdges ==
  [][ \A ch \in Chans : sub_callback =>
        LET called(type) == /\ Len(subCalls') = Len(subCalls) + 1
                            /\ subCalls'[Len(subCalls')] = <<type, ch>>
        IN /\ called("sub") <=> (~Subscribed(ch) /\ Subscribed(ch)')
           /\ called("unsub") <=> (Subscribed(ch) /\ ~Subscribed(ch)') ]_vars

\* apply_config over every shape of entry, with remove_all_clients between
NextCfg ==
  \/ \E cfg \in Configs(AllEntries, MaxEntries) : CallApplyConfig(1, cfg)
  \/ ApplyEntry(1)
  \/ ConnectZmqPubUri(1)
  \/ ApplyAppend(1)
  \/ CallRemove(1)
  \/ RemoveNext(1)
  \/ RemoveClear(1)
  \/ RemoveCheck(1)
  \/ RemoveClose(1)
  \/ Return(1)

SpecCfg == Init /\ [][NextCfg]_vars

\* two threads of the consumer call the dispatcher at the same time
ConcEntries ==
  { Entry(TRUE, FALSE, FALSE, 0, "none"),     \* {'uri'}
    Entry(FALSE, FALSE, FALSE, 1, "none"),    \* {'zmq_pub_uri': 1}
    Entry(FALSE, FALSE, FALSE, 2, "none") }   \* {'zmq_pub_uri': 2}

StepConc(t) ==
  \/ \E b \in BOOLEAN : CallPublish(t, b, ~b)
  \/ SendToZmq(t)
  \/ PublishSize(t)
  \/ PublishNext(t)
  \/ CallRemove(t)
  \/ RemoveNext(t)
  \/ RemoveClear(t)
  \/ RemoveCheck(t)
  \/ RemoveClose(t)
  \/ \E cfg \in Configs(ConcEntries, 1) : CallApplyConfig(t, cfg)
  \/ ApplyEntry(t)
  \/ ConnectZmqPubUri(t)
  \/ ApplyAppend(t)
  \/ Return(t)

NextConc == \E t \in AllThreads : StepConc(t)

SpecConc == Init /\ [][NextConc]_vars

\* C11: every raw event of a monitor of the dispatcher's socket goes to the
\* aggregation routine _submonitor_callback, which alone decides whether the
\* consumer's callback runs: no monitor calls the consumer's callback itself.
C11_EventsGoThroughAggregation ==
  [][ \A m \in 1..Len(monitors) :
        (monitors'[m].subs # monitors[m].subs /\ subCalls' # subCalls) =>
          monitors[m].cb = "_submonitor_callback" ]_vars

\* C12: the mutex is free whenever no thread is inside a critical section
\* (a critical section is a single step here, so: in every state), also after
\* a send, a connect or a close that raised.
C12_MutexFreeAfterOperation == lock = FALSE

\* C15: every publish call first sends on the shared socket, exactly one
\* message when the socket exists and none when it does not, before any
\* client's publish is invoked; a send that raises ends the call with no client
\* invoked; the result given to the callback does not depend on the send.
C15_SendPrecedesClients ==
  \A t \in AllThreads :
    Publishing(t) =>
      /\ pc[t] = "send" => (loc[t].calls = <<>> /\ loc[t].sent = 0)
      /\ (pc[t] \in {"size", "pub_loop", "done"} \/ loc[t].err = "TransportError")
           => loc[t].sent = (IF zmq_sock # 0 THEN 1 ELSE 0)
      /\ loc[t].err = "SendError" => (loc[t].calls = <<>> /\ loc[t].sent = 0)
      /\ (loc[t].hid # 0 /\ handlers[loc[t].hid].live
            /\ handlers[loc[t].hid].fired = 1 /\ handlers[loc[t].hid].fails = 0)
           => handlers[loc[t].hid].result = <<TRUE, EmptyMsg>>

\* one message was sent, a client was started after it and the callback got
\* (true, "")
C15_Witness ==
  \E t \in AllThreads :
    /\ Publishing(t) /\ loc[t].sent = 1 /\ Len(loc[t].calls) >= 1
    /\ loc[t].hid # 0 /\ handlers[loc[t].hid].fired = 1
    /\ handlers[loc[t].hid].result = <<TRUE, EmptyMsg>>

\* C18: when the dispatcher holds a monitor it holds an open shared socket and
\* the monitor is bound to that socket; no monitor stays bound to a closed
\* socket and no two monitors are alive.
C18_MonitorBoundToOpenSocket ==
  /\ zmq_sub_monitor # 0 =>
       /\ zmq_sock # 0
       /\ monitors[zmq_sub_monitor].sock = zmq_sock
  /\ \A m \in 1..Len(monitors) : socks[monitors[m].sock].open
  /\ Len(monitors) <= 1

\* the entry apply_config is working on
CurEntry(t) == loc[t].cfg[loc[t].idx + 1]

SockUris == [s \in 1..Len(socks) |-> socks[s].uris]

\* C16: apply_config connects the shared socket to an entry's zmq_pub_uri if
\* and only if the entry has zmq_pub_uri and (zmq_require_subscribers is true
\* or the entry has no zmq_push_uri), a missing zmq_require_subscribers being
\* false; the socket is created or connected for no other entry.
C16_ConnectsIffPolicy ==
  [][ /\ \A t \in AllThreads :
           LET e == CurEntry(t)
               policy == e.pub # 0 /\ (e.req = "true" \/ ~e.push)
           IN /\ (pc[t] = "cfg_entry" /\ pc'[t] \in {"cfg_connect", "cfg_append"})
                   => (pc'[t] = "cfg_connect" <=> policy)
              /\ (pc[t] = "cfg_connect" /\ pc'[t] = "cfg_append")
                   => /\ policy
                      /\ zmq_sock' # 0
                      /\ e.pub \in socks'[zmq_sock'].uris
      /\ SockUris' # SockUris =>
           \E t \in AllThreads :
             /\ pc[t] = "cfg_connect"
             /\ CurEntry(t).pub # 0
             /\ CurEntry(t).req = "true" \/ ~CurEntry(t).push ]_vars

\* an entry with zmq_push_uri, zmq_pub_uri and zmq_require_subscribers true has
\* been connected
C16_Witness ==
  \E t \in AllThreads :
    /\ loc[t].op = "apply" /\ pc[t] = "cfg_append"
    /\ CurEntry(t).push /\ CurEntry(t).pub = 2 /\ CurEntry(t).req = "true"
    /\ zmq_sock # 0 /\ 2 \in socks[zmq_sock].uris

\* C13: with remove_all_clients running on two threads, or next to publish or
\* apply_config, every socket is closed at most once and no remove_all_clients
\* call raises.
C13_ConcurrentRemoveClosesOnce ==
  /\ \A s \in 1..Len(socks) : socks[s].closes <= 1
  /\ \A t \in AllThreads : loc[t].op = "remove" => pc[t] # "raised"

\* no remove_all_clients has closed a socket so far
NoSocketClosed == \A s \in 1..Len(socks) : socks[s].closes = 0

\* the URIs thread t has connected in the apply_config call it is in
Connected(t) ==
  { loc[t].cfg[i].pub :
      i \in { j \in 1..Len(loc[t].cfg) :
                /\ ShouldConnect(loc[t].cfg[j])
                /\ \/ j <= loc[t].idx
                   \/ j = loc[t].idx + 1 /\ pc[t] = "cfg_append" } }

\* C14: as long as remove_all_clients has closed nothing, the calls of
\* _connect_zmq_pub_uri, one after the other or on two threads, make one
\* socket and at most one monitor, a monitor exactly when a subscription
\* callback was given at construction, and every URI connected is connected
\* on that one socket.
C14_OneSocketManyConnects ==
  NoSocketClosed =>
    /\ Len(socks) <= 1
    /\ Len(monitors) <= 1
    /\ socks = <<>> => (zmq_sock = 0 /\ monitors = <<>> /\ zmq_sub_monitor = 0)
    /\ socks # <<>> =>
         /\ zmq_sock = 1
         /\ monitors # <<>> <=> sub_callback
         /\ monitors # <<>> => (monitors[1].sock = 1 /\ zmq_sub_monitor = 1)
    /\ \A t \in AllThreads :
         (loc[t].op = "apply" /\ Connected(t) # {}) =>
           (socks # <<>> /\ Connected(t) \subseteq socks[1].uris)

\* two threads are in apply_config, each has connected its own URI
C14_Witness ==
  /\ NoSocketClosed
  /\ loc[1].op = "apply" /\ loc[2].op = "apply"
  /\ Connected(1) = {1} /\ Connected(2) = {2}
  /\ Len(socks) = 1 /\ socks[1].uris = {1, 2}

\* C17: whenever _send_to_zmq finds a socket to send on, and whenever
\* _connect_zmq_pub_uri connects, the socket used is open, in every
\* interleaving of publish, apply_config and remove_all_clients.
C17_NoUseOfClosedSocket ==
  [][ \A t \in AllThreads :
        /\ (pc[t] = "send" /\ pc'[t] # "send" /\ zmq_sock # 0)
             => socks[zmq_sock].open
        /\ (pc[t] = "cfg_connect" /\ pc'[t] # "cfg_connect")
             => (zmq_sock' # 0 /\ socks'[zmq_sock'].open) ]_vars

\* a publish has sent on the second socket while the other thread is inside
\* remove_all_clients, the first socket being closed
C17_Witness ==
  \E t \in AllThreads, u \in AllThreads :
    /\ t # u
    /\ Publishing(t) /\ loc[t].sent = 1
    /\ loc[u].op = "remove" /\ pc[u] \in {"rm_loop", "rm_clear", "rm_check", "rm_close"}
    /\ Len(socks) = 2 /\ ~socks[1].open /\ zmq_sock = 2

\* C19: when a non-blocking publish with a callback has gone through the
\* client list, the count its handler waits for is the number of clients it
\* has started, whatever another thread did to the list meanwhile.
C19_ExpectedCountIsStartedCount ==
  \A t \in AllThreads :
    (Publishing(t) /\ pc[t] = "done" /\ loc[t].hid # 0) =>
      handlers[loc[t].hid].n = Len(loc[t].calls)

\* C20: publish never invokes a client that remove_all_clients has closed.
C20_NoPublishOnClosedClient ==
  [][ \A t \in AllThreads :
        (Publishing(t) /\ Len(loc'[t].calls) > Len(loc[t].calls)) =>
          ~objs[loc'[t].calls[Len(loc'[t].calls)]].closed ]_vars
====
